---- MODULE Spec2Model ----
(***************************************************************************)
(* Model of google-cloud-storage-file-archiver/main.py: the HTTP entry     *)
(* point direct_copy_or_move (validation, listing, dispatch, result loop), *)
(* the retry wrappers _retry_blob_listing and _retry_gcs_operation, and    *)
(* the worker process_single_file_copy_or_move.                            *)
(*                                                                         *)
(* Strings that the code takes apart (object names, prefixes, the age      *)
(* given as text) are sequences of one-character strings.  Optional values *)
(* (None or a value) are sequences of length 0 or 1.  Durations of the     *)
(* backoff are in tenths of a second, the clock is in seconds.             *)
(***************************************************************************)
EXTENDS Integers, Sequences, FiniteSets, TLC

VARIABLES
    config,            \* the JSON payload of the request
    bucket,            \* the source bucket's objects at listing time, in listing order
    pc,                \* position of direct_copy_or_move
    status,            \* what direct_copy_or_move returned (or that it raised)
    clock,             \* time.time() - start_time, in seconds
    min_age_timedelta, \* None or the validated threshold in days
    listers,           \* one _retry_blob_listing call per listing task
    cur,               \* the listing whose iterator filter_blobs is consuming (0: none)
    pos,               \* next position of that iterator
    page_loaded,       \* the page holding position pos has been fetched
    blobs_to_process,  \* the work list (names of the yielded blobs)
    workers,           \* one process_single_file_copy_or_move call per submitted blob
    consumed,          \* futures already handed over by as_completed
    results,           \* the summary counters; <<>> before line 165
    summary,           \* the counters printed at line 201; <<>> before
    src,               \* names present in the source bucket
    dst,               \* names present in the destination bucket
    calls,             \* kinds of remote object-store calls issued so far
    breach_seen,       \* should_continue() has returned False at a poll point
    list_clock,        \* the clock when generate_eligible_blobs started; -1 before
    faults             \* remote-call failures the environment may still inject

vars == <<config, bucket, pc, status, clock, min_age_timedelta, listers, cur, pos,
          page_loaded, blobs_to_process, workers, consumed, results, summary,
          src, dst, calls, breach_seen, list_clock, faults>>

-----------------------------------------------------------------------------
(* Program constants (main.py lines 22-28).                                *)

MAX_WORKERS == 90
MAX_API_RETRIES == 4
\* 1.5 s, in tenths of a second
INITIAL_BACKOFF_SECONDS == 15
TARGET_SOURCE_STORAGE_CLASS == "COLDLINE"
MIN_AGE_DAYS_THRESHOLD == 90
FUNCTION_TIMEOUT_SECONDS == 3600
GRACEFUL_SHUTDOWN_BUFFER_SECONDS == 30
\* max_workers of the lister pool is min(len(prefixes), 10)
LISTER_POOL_MAX == 10

(* Bounds of the model.                                                    *)

\* seconds by which one step of the clock advances
TickSeconds == 3570
\* objects per listing page
PageSize == 2
\* failures the environment injects in a run that exercises the retry loops
RetryFaults == 4
\* failures the environment injects in a run with several concurrent transfers
RunFaults == 1
\* the day on which the run takes place (datetime.now at line 74)
NowDay == 1000

-----------------------------------------------------------------------------
(* Strings.                                                                *)

Max(S) == CHOOSE x \in S : \A y \in S : y <= x
Min2(a, b) == IF a <= b THEN a ELSE b

\* str.endswith('/')
EndsWithSlash(s) == Len(s) > 0 /\ s[Len(s)] = "/"

\* str.startswith(p)
StartsWith(s, p) == Len(p) <= Len(s) /\ SubSeq(s, 1, Len(p)) = p

\* os.path.basename: what follows the last '/'
Basename(s) ==
    LET slashes == {i \in 1..Len(s) : s[i] = "/"}
    IN  IF slashes = {} THEN s ELSE SubSeq(s, Max(slashes) + 1, Len(s))

Digits == <<"0", "1", "2", "3", "4", "5", "6", "7", "8", "9">>
IsDigit(c) == \E d \in 1..10 : Digits[d] = c
DigitVal(c) == (CHOOSE d \in 1..10 : Digits[d] = c) - 1

RECURSIVE DigitsVal(_)
DigitsVal(s) ==
    IF s = <<>> THEN 0
    ELSE 10 * DigitsVal(SubSeq(s, 1, Len(s) - 1)) + DigitVal(s[Len(s)])

\* int(text): an optional sign and at least one digit, else ValueError
ParseInt(s) ==
    LET signed == Len(s) > 0 /\ s[1] \in {"-", "+"}
        body == IF signed THEN SubSeq(s, 2, Len(s)) ELSE s
        good == Len(body) > 0 /\ \A i \in 1..Len(body) : IsDigit(body[i])
    IN  IF ~good THEN [ok |-> FALSE, n |-> 0]
        ELSE [ok |-> TRUE,
              n |-> IF signed /\ s[1] = "-" THEN 0 - DigitsVal(body) ELSE DigitsVal(body)]

-----------------------------------------------------------------------------
(* The deadline (lines 45-51).                                             *)

time_remaining(t) == FUNCTION_TIMEOUT_SECONDS - t

should_continue_lax(t) == time_remaining(t) >= GRACEFUL_SHUTDOWN_BUFFER_SECONDS
should_continue(t) == time_remaining(t) > GRACEFUL_SHUTDOWN_BUFFER_SECONDS

-----------------------------------------------------------------------------
(* Payload parsing and validation (lines 117-149).                         *)

\* the match-all sentinel [""]
MatchAll == << <<>> >>

NoStatus == [text |-> "", code |-> 0]
OK200 == [text |-> "OK", code |-> 200]
NoPayload400 == [text |-> "Invalid request: No JSON payload received", code |-> 400]
Invalid400 == [text |-> "Error: Invalid configuration.", code |-> 400]
\* an exception that leaves direct_copy_or_move: the framework answers 500
Raised500 == [text |-> "unhandled exception", code |-> 500]

\* config.get('filename_prefixes', [""])
FILENAME_PREFIXES(c) ==
    IF c.filename_prefixes.kind = "absent" THEN MatchAll ELSE c.filename_prefixes.items

\* isinstance(FILENAME_PREFIXES, list) and all(isinstance(p, str) ...)
PrefixesAreStrings(c) == c.filename_prefixes.kind \in {"absent", "list"}

\* Python truth value of config.get('min_age_days_for_transfer')
AgeGiven(a) ==
    CASE a.kind = "null" -> FALSE
      [] a.kind = "int" -> a.n /= 0
      [] a.kind = "str" -> a.s /= <<>>

\* int(min_age_days_for_transfer)
AgeInt(a) == IF a.kind = "int" THEN [ok |-> TRUE, n |-> a.n] ELSE ParseInt(a.s)

\* lines 141-145: None, or the threshold in days; ok is FALSE when int() raises
MinAgeTimedeltaNoFloor(a) ==
    IF ~AgeGiven(a) THEN [ok |-> TRUE, value |-> <<>>]
    ELSE IF ~AgeInt(a).ok THEN [ok |-> FALSE, value |-> <<>>]
    ELSE [ok |-> TRUE, value |-> <<AgeInt(a).n>>]
MinAgeTimedelta(a) ==
    IF ~AgeGiven(a) THEN [ok |-> TRUE, value |-> <<>>]
    ELSE IF ~AgeInt(a).ok THEN [ok |-> FALSE, value |-> <<>>]
    ELSE IF AgeInt(a).n > MIN_AGE_DAYS_THRESHOLD
         THEN [ok |-> TRUE, value |-> <<AgeInt(a).n>>]
         ELSE [ok |-> TRUE, value |-> <<>>]

\* lines 134-139: the defensive input checks pass
BucketsAcceptedNoDiffer(c) == c.source_bucket /= "" /\ c.destination_bucket /= ""
BucketsAccepted(c) ==
    /\ c.source_bucket /= "" /\ c.destination_bucket /= ""
    /\ c.source_bucket /= c.destination_bucket

ConfigAccepted(c) ==
    BucketsAccepted(c) /\ PrefixesAreStrings(c) /\ MinAgeTimedelta(c.min_age_days_for_transfer).ok

-----------------------------------------------------------------------------
(* The eligibility filter (lines 84-96) for one blob: TRUE iff it is       *)
(* yielded.  age is None or the threshold in days, now the day of the run. *)

PrefixPassesFullName(name, prefixes) ==
    prefixes = MatchAll
    \/ \E i \in 1..Len(prefixes) : StartsWith(name, prefixes[i])
PrefixPasses(name, prefixes) ==
    prefixes = MatchAll
    \/ \E i \in 1..Len(prefixes) : StartsWith(Basename(name), prefixes[i])

AgePasses(blob, age, now) ==
    ~(age /= <<>> /\ age[1] /= 0
      /\ (blob.updated = <<>> \/ now - blob.updated[1] < age[1]))

ClassPasses(blob) == blob.storage_class = TARGET_SOURCE_STORAGE_CLASS

filter_blobs(blob, prefixes, age, now) ==
    IF EndsWithSlash(blob.name) THEN FALSE
    ELSE IF ~PrefixPasses(blob.name, prefixes) THEN FALSE
    ELSE IF ~AgePasses(blob, age, now) THEN FALSE
    ELSE IF ~ClassPasses(blob) THEN FALSE
    ELSE TRUE

-----------------------------------------------------------------------------
(* The retry wrappers.  A call in progress is [attempt, backoff, outs,     *)
(* waits]: the loop index, the next sleep, the outcome of every attempt    *)
(* made and every sleep taken.  A finished call keeps outs and waits with  *)
(* how it ended.                                                           *)

FreshCall == [attempt |-> 0, backoff |-> INITIAL_BACKOFF_SECONDS, outs |-> <<>>, waits |-> <<>>]

Outcomes == {"ok", "transient", "fatal"}

\* the except clause sleeps and loops again (lines 61-64, 233-235)
Sleep(r, out) ==
    [attempt |-> r.attempt + 1, backoff |-> r.backoff * 2,
     outs |-> Append(r.outs, out), waits |-> Append(r.waits, r.backoff)]

Ended(r, out) == [r EXCEPT !.outs = Append(r.outs, out)]

\* _retry_gcs_operation (lines 219-240): what one attempt ending `out` leads to
RetryGcsSleepLast(r, out) ==
    IF out = "ok" THEN [next |-> "return", call |-> Ended(r, out)]
    ELSE IF out = "transient"
         THEN IF r.attempt < MAX_API_RETRIES - 1
              THEN [next |-> "retry", call |-> Sleep(r, out)]
              ELSE [next |-> "raise", call |-> [Sleep(r, out) EXCEPT !.attempt = r.attempt]]
         ELSE [next |-> "raise", call |-> Ended(r, out)]
_retry_gcs_operation(r, out) ==
    IF out = "ok" THEN [next |-> "return", call |-> Ended(r, out)]
    ELSE IF out = "transient"
         THEN IF r.attempt < MAX_API_RETRIES - 1
              THEN [next |-> "retry", call |-> Sleep(r, out)]
              ELSE [next |-> "raise", call |-> Ended(r, out)]
         ELSE [next |-> "raise", call |-> Ended(r, out)]

\* _retry_blob_listing (lines 55-67): every exception is retried
_retry_blob_listing(r, out) ==
    IF out = "ok" THEN [next |-> "return", call |-> Ended(r, out)]
    ELSE IF r.attempt < MAX_API_RETRIES - 1
         THEN [next |-> "retry", call |-> Sleep(r, out)]
         ELSE [next |-> "raise", call |-> Ended(r, out)]

-----------------------------------------------------------------------------
(* direct_copy_or_move up to the work list.                                *)

\* lines 117-124: the payload is missing or empty, or it is parsed
ParsePayload ==
    /\ pc = "parse"
    /\ IF config.present
       THEN pc' = "validate" /\ status' = status
       ELSE pc' = "done" /\ status' = NoPayload400
    /\ UNCHANGED <<config, bucket, clock, min_age_timedelta, listers, cur, pos,
                   page_loaded, blobs_to_process, workers, consumed, results,
                   summary, src, dst, calls, breach_seen, faults, list_clock>>

\* lines 126-149: any failed check is answered 400
ValidateConfig ==
    /\ pc = "validate"
    /\ IF ConfigAccepted(config)
       THEN /\ pc' = "list"
            /\ min_age_timedelta' = MinAgeTimedelta(config.min_age_days_for_transfer).value
            /\ status' = status
       ELSE /\ pc' = "done"
            /\ status' = Invalid400
            /\ min_age_timedelta' = min_age_timedelta
    /\ UNCHANGED <<config, bucket, clock, listers, cur, pos, page_loaded,
                   blobs_to_process, workers, consumed, results, summary, src, dst,
                   calls, breach_seen, faults, list_clock>>

PendingLister == [st |-> "pending", call |-> FreshCall]

\* lines 98-107: one inline listing for the sentinel, else one task per
\* prefix in a pool of min(len(prefixes), 10) threads; a pool of 0 threads
\* raises ValueError, which nothing catches
StartListing ==
    /\ pc = "list"
    /\ LET prefixes == FILENAME_PREFIXES(config)
       IN  IF prefixes = MatchAll
           THEN /\ listers' = <<[st |-> "running", call |-> FreshCall]>>
                /\ pc' = "listing" /\ status' = status
           ELSE IF Min2(Len(prefixes), LISTER_POOL_MAX) = 0
           THEN /\ listers' = listers
                /\ pc' = "done" /\ status' = Raised500
           ELSE /\ listers' = [i \in 1..Len(prefixes) |-> PendingLister]
                /\ pc' = "listing" /\ status' = status
    /\ list_clock' = clock
    /\ UNCHANGED <<config, bucket, clock, min_age_timedelta, cur, pos, page_loaded,
                   blobs_to_process, workers, consumed, results, summary, src, dst,
                   calls, breach_seen, faults>>

Running(l) == {i \in 1..Len(l) : l[i].st = "running"}

\* a thread of the lister pool takes a submitted task (line 105)
StartLister(i) ==
    /\ pc = "listing"
    /\ listers[i].st = "pending"
    /\ Cardinality(Running(listers)) < Min2(Len(listers), LISTER_POOL_MAX)
    /\ listers' = [listers EXCEPT ![i].st = "running"]
    /\ UNCHANGED <<config, bucket, pc, status, clock, min_age_timedelta, cur, pos,
                   page_loaded, blobs_to_process, workers, consumed, results,
                   summary, src, dst, calls, breach_seen, faults, list_clock>>

AllowedOuts == IF faults > 0 THEN Outcomes ELSE {"ok"}
Spend(out) == IF out = "ok" THEN faults ELSE faults - 1

\* one pass of the loop of _retry_blob_listing (lines 56-67); the call
\* bucket.list_blobs takes no prefix
ListAttempt(i) ==
    /\ pc = "listing"
    /\ listers[i].st = "running"
    /\ \E out \in AllowedOuts :
          LET r == _retry_blob_listing(listers[i].call, out)
          IN  /\ listers' = [listers EXCEPT ![i] =
                     [st |-> CASE r.next = "retry" -> "running"
                               [] r.next = "return" -> "returned"
                               [] r.next = "raise" -> "raised",
                      call |-> r.call]]
              /\ faults' = Spend(out)
    /\ calls' = calls \cup {"list"}
    /\ UNCHANGED <<config, bucket, pc, status, clock, min_age_timedelta, cur, pos,
                   page_loaded, blobs_to_process, workers, consumed, results,
                   summary, src, dst, breach_seen, list_clock>>

\* the main thread receives a finished listing: the return value of line
\* 100, or future.result() at line 110.  An exception of the inline listing
\* leaves the generator and direct_copy_or_move; one of a pool task is
\* caught at line 111.
TakeListing(i) ==
    /\ pc = "listing"
    /\ cur = 0
    /\ listers[i].st \in {"returned", "raised"}
    /\ IF listers[i].st = "returned"
       THEN /\ cur' = i /\ pos' = 1 /\ page_loaded' = FALSE
            /\ listers' = listers
            /\ pc' = pc /\ status' = status
       ELSE /\ cur' = 0 /\ pos' = pos /\ page_loaded' = page_loaded
            /\ listers' = [listers EXCEPT ![i].st = "consumed"]
            /\ IF FILENAME_PREFIXES(config) = MatchAll
               THEN pc' = "done" /\ status' = Raised500
               ELSE pc' = pc /\ status' = status
    /\ UNCHANGED <<config, bucket, clock, min_age_timedelta, blobs_to_process,
                   workers, consumed, results, summary, src, dst, calls,
                   breach_seen, faults, list_clock>>

\* blob_iter.pages fetches the next page (line 77); no retry wraps it
FetchPage ==
    /\ pc = "listing"
    /\ cur /= 0
    /\ ~page_loaded
    /\ \E out \in AllowedOuts :
          /\ faults' = Spend(out)
          /\ IF out = "ok"
             THEN IF Len(bucket) = 0
                  THEN /\ listers' = [listers EXCEPT ![cur].st = "consumed"]
                       /\ cur' = 0 /\ page_loaded' = FALSE
                       /\ pc' = pc /\ status' = status
                  ELSE /\ page_loaded' = TRUE
                       /\ UNCHANGED <<listers, cur, pc, status>>
             ELSE /\ listers' = [listers EXCEPT ![cur].st = "broken"]
                  /\ cur' = 0 /\ page_loaded' = FALSE
                  /\ IF FILENAME_PREFIXES(config) = MatchAll
                     THEN pc' = "done" /\ status' = Raised500
                     ELSE pc' = pc /\ status' = status
    /\ calls' = calls \cup {"list"}
    /\ UNCHANGED <<config, bucket, clock, min_age_timedelta, pos, blobs_to_process,
                   workers, consumed, results, summary, src, dst, breach_seen, list_clock>>

\* one pass of the inner loop of filter_blobs (lines 78-96)
FilterStep ==
    /\ pc = "listing"
    /\ cur /= 0
    /\ page_loaded
    /\ IF ~should_continue(clock)
       THEN /\ breach_seen' = TRUE
            /\ listers' = [listers EXCEPT ![cur].st = "consumed"]
            /\ cur' = 0 /\ page_loaded' = FALSE
            /\ UNCHANGED <<pos, blobs_to_process>>
       ELSE /\ breach_seen' = breach_seen
            /\ blobs_to_process' =
                  IF filter_blobs(bucket[pos], FILENAME_PREFIXES(config),
                                  min_age_timedelta, NowDay)
                  THEN Append(blobs_to_process, bucket[pos].name)
                  ELSE blobs_to_process
            /\ pos' = pos + 1
            /\ IF pos + 1 > Len(bucket)
               THEN /\ listers' = [listers EXCEPT ![cur].st = "consumed"]
                    /\ cur' = 0 /\ page_loaded' = FALSE
               ELSE /\ listers' = listers
                    /\ cur' = cur
                    /\ page_loaded' = (pos % PageSize /= 0)
    /\ UNCHANGED <<config, bucket, pc, status, clock, min_age_timedelta, workers,
                   consumed, results, summary, src, dst, calls, faults, list_clock>>

-----------------------------------------------------------------------------
(* process_single_file_copy_or_move (lines 243-279).  A worker is at      *)
(* "queued", at one of the four remote calls, or "done".  steps lists the  *)
(* remote calls it has issued, each once, in order.                        *)

NoReturn == [st |-> "none", success |-> FALSE, copied |-> 0, verified |-> 0, deleted |-> 0]
\* return False, 0, 0, 0 (lines 252 and 279)
ReturnFailure == [st |-> "returned", success |-> FALSE, copied |-> 0, verified |-> 0, deleted |-> 0]
\* the exception leaves the worker: future.result() raises
WorkerRaised == [st |-> "raised", success |-> FALSE, copied |-> 0, verified |-> 0, deleted |-> 0]

int(b) == IF b THEN 1 ELSE 0

\* return True, int(copied), int(verified), int(deleted) (line 276)
ReturnSuccess(w) ==
    [st |-> "returned", success |-> TRUE, copied |-> int(w.copied),
     verified |-> int(w.verified), deleted |-> int(w.deleted)]

QueuedWorker(name) ==
    [name |-> name, pc |-> "queued", call |-> FreshCall, steps |-> <<>>,
     copied |-> FALSE, verified |-> FALSE, deleted |-> FALSE, ret |-> NoReturn,
     last |-> [op |-> "none", next |-> "none", value |-> FALSE, outs |-> <<>>,
               waits |-> <<>>]]

Finish(w, ret) == [w EXCEPT !.pc = "done", !.ret = ret]
Goto(w, step) == [w EXCEPT !.pc = step, !.call = FreshCall]

\* lines 249-252: existing_blob is None or the blob
AfterCheck(w, existing_blob) ==
    IF ~existing_blob THEN Finish(w, ReturnFailure) ELSE Goto(w, "copy")

\* lines 261-262
AfterCopy(w) == Goto([w EXCEPT !.copied = TRUE], "verify")

\* lines 265-276: dest_blob is None or the blob
AfterVerifyNoRaise(w, dest_blob, delete_source) ==
    LET v == [w EXCEPT !.verified = dest_blob]
    IN  IF delete_source THEN Goto(v, "delete") ELSE Finish(v, ReturnSuccess(v))
AfterVerifyPartialCredit(w, dest_blob, delete_source) ==
    IF ~dest_blob THEN Finish(w, ReturnSuccess(w))
    ELSE LET v == [w EXCEPT !.verified = TRUE]
         IN  IF delete_source /\ v.verified THEN Goto(v, "delete")
             ELSE Finish(v, ReturnSuccess(v))
AfterVerify(w, dest_blob, delete_source) ==
    IF ~dest_blob THEN Finish(w, ReturnFailure)
    ELSE LET v == [w EXCEPT !.verified = TRUE]
         IN  IF delete_source /\ v.verified THEN Goto(v, "delete")
             ELSE Finish(v, ReturnSuccess(v))

\* lines 273-276
AfterDelete(w) ==
    LET d == [w EXCEPT !.deleted = TRUE] IN Finish(d, ReturnSuccess(d))

\* an exception of a remote call: the check at line 249 is outside the try,
\* the other calls are caught at line 277
AfterRaiseKeepsFlags(w) ==
    IF w.pc = "check" THEN Finish(w, WorkerRaised) ELSE Finish(w, ReturnSuccess(w))
AfterRaise(w) ==
    IF w.pc = "check" THEN Finish(w, WorkerRaised) ELSE Finish(w, ReturnFailure)

Busy(ws) == {t \in 1..Len(ws) : ws[t].pc \in {"check", "copy", "verify", "delete"}}

\* a thread of the pool of MAX_WORKERS takes a submitted transfer
StartTransfer(t) ==
    /\ pc \in {"collect", "shutdown"}
    /\ workers[t].pc = "queued"
    /\ Cardinality(Busy(workers)) < MAX_WORKERS
    /\ workers' = [workers EXCEPT ![t] = Goto(@, "check")]
    /\ UNCHANGED <<config, bucket, pc, status, clock, min_age_timedelta, listers,
                   cur, pos, page_loaded, blobs_to_process, consumed, results,
                   summary, src, dst, calls, breach_seen, faults, list_clock>>

\* copy_blob and delete of an object that is gone answer 404 (NotFound),
\* which is not one of the retried errors
OutsOf(w) ==
    IF w.pc \in {"copy", "delete"} /\ w.name \notin src THEN {"fatal"} ELSE AllowedOuts

CallKind(step) ==
    CASE step \in {"check", "verify"} -> "get"
      [] step = "copy" -> "copy"
      [] step = "delete" -> "delete"

\* one pass of the loop of _retry_gcs_operation around the remote call the
\* worker is at, and what the worker does with its result.  A copy that is
\* answered with success may fail to land (lands = FALSE).
Attempt(t) ==
    /\ pc \in {"collect", "shutdown"}
    /\ workers[t].pc \in {"check", "copy", "verify", "delete"}
    /\ LET w == workers[t] IN
       \E out \in OutsOf(w) : \E lands \in (IF faults > 0 THEN BOOLEAN ELSE {TRUE}) :
          LET r == _retry_gcs_operation(w.call, out)
              seen == [w EXCEPT !.steps = IF w.call.attempt = 0 THEN Append(@, w.pc) ELSE @,
                                !.call = r.call]
              value == CASE r.next /= "return" -> FALSE
                         [] w.pc = "check" -> w.name \in src
                         [] w.pc = "verify" -> w.name \in dst
                         [] OTHER -> TRUE
              ended == [seen EXCEPT !.last = [op |-> w.pc, next |-> r.next, value |-> value,
                                              outs |-> r.call.outs, waits |-> r.call.waits]]
              spent == IF out = "ok" /\ w.pc = "copy" /\ ~lands THEN faults - 1
                       ELSE IF out \in AllowedOuts THEN Spend(out) ELSE faults
          IN  /\ (lands \/ (out = "ok" /\ w.pc = "copy"))
              /\ faults' = spent
              /\ workers' = [workers EXCEPT ![t] =
                    CASE r.next = "retry" -> seen
                      [] r.next = "raise" -> AfterRaise(ended)
                      [] r.next = "return" /\ w.pc = "check" -> AfterCheck(ended, value)
                      [] r.next = "return" /\ w.pc = "copy" -> AfterCopy(ended)
                      [] r.next = "return" /\ w.pc = "verify" ->
                            AfterVerify(ended, value, config.delete_source_after_transfer)
                      [] r.next = "return" /\ w.pc = "delete" -> AfterDelete(ended)]
              /\ dst' = IF r.next = "return" /\ w.pc = "copy" /\ lands
                        THEN dst \cup {w.name} ELSE dst
              /\ src' = IF r.next = "return" /\ w.pc = "delete"
                        THEN src \ {w.name} ELSE src
              /\ calls' = calls \cup {CallKind(w.pc)}
    /\ UNCHANGED <<config, bucket, pc, status, clock, min_age_timedelta, listers,
                   cur, pos, page_loaded, blobs_to_process, consumed, results,
                   summary, breach_seen, list_clock>>

\* someone else deletes a listed object before its transfer is over
Vanish(n) ==
    /\ pc = "collect"
    /\ n \in src
    /\ faults > 0
    /\ \E t \in 1..Len(workers) : workers[t].name = n /\ workers[t].pc /= "done"
    /\ src' = src \ {n}
    /\ faults' = faults - 1
    /\ UNCHANGED <<config, bucket, pc, status, clock, min_age_timedelta, listers,
                   cur, pos, page_loaded, blobs_to_process, workers, consumed,
                   results, summary, dst, calls, breach_seen, list_clock>>

-----------------------------------------------------------------------------
(* direct_copy_or_move from the work list on (lines 160-204).             *)

\* every listing was iterated to its end ("consumed": also one that raised
\* or was cut by the deadline) or up to a page that could not be fetched
ListingOver ==
    cur = 0 /\ \A i \in 1..Len(listers) : listers[i].st \in {"consumed", "broken"}

ZeroResults == [copied |-> 0, verified |-> 0, deleted |-> 0, failed |-> 0]

\* lines 160-172: nothing to do, or the counters and one future per blob
Dispatch ==
    /\ pc = "listing"
    /\ ListingOver
    /\ IF blobs_to_process = <<>>
       THEN /\ pc' = "done" /\ status' = OK200
            /\ UNCHANGED <<results, workers>>
       ELSE /\ pc' = "collect" /\ status' = status
            /\ results' = <<ZeroResults>>
            /\ workers' = [t \in 1..Len(blobs_to_process) |-> QueuedWorker(blobs_to_process[t])]
    /\ UNCHANGED <<config, bucket, clock, min_age_timedelta, listers, cur, pos,
                   page_loaded, blobs_to_process, consumed, summary, src, dst,
                   calls, breach_seen, faults, list_clock>>

\* lines 184-195: what one handed-over future does to the counters
AggregateFailureIgnored(res, ret) ==
    IF ret.st = "raised" THEN [res EXCEPT !.failed = @ + 1]
    ELSE IF ret.success
         THEN [res EXCEPT !.copied = @ + ret.copied, !.verified = @ + ret.verified,
                          !.deleted = @ + ret.deleted]
         ELSE res
AggregateLostUpdate(res, ret) ==
    IF ret.st = "raised" THEN [res EXCEPT !.failed = @ + 1]
    ELSE IF ret.success
         THEN [res EXCEPT !.copied = ret.copied, !.verified = ret.verified,
                          !.deleted = ret.deleted]
         ELSE [res EXCEPT !.failed = @ + 1]
Aggregate(res, ret) ==
    IF ret.st = "raised" THEN [res EXCEPT !.failed = @ + 1]
    ELSE IF ret.success
         THEN [res EXCEPT !.copied = @ + ret.copied, !.verified = @ + ret.verified,
                          !.deleted = @ + ret.deleted]
         ELSE [res EXCEPT !.failed = @ + 1]

\* one pass of the loop at line 175: as_completed hands over a finished
\* future; past the deadline the loop is left, else the result is counted
Consume(t) ==
    /\ pc = "collect"
    /\ workers[t].pc = "done"
    /\ t \notin consumed
    /\ IF ~should_continue(clock)
       THEN /\ breach_seen' = TRUE
            /\ pc' = "shutdown"
            /\ UNCHANGED <<results, consumed>>
       ELSE /\ breach_seen' = breach_seen
            /\ results' = <<Aggregate(results[1], workers[t].ret)>>
            /\ consumed' = consumed \cup {t}
            /\ pc' = IF consumed \cup {t} = 1..Len(workers) THEN "shutdown" ELSE pc
    /\ UNCHANGED <<config, bucket, status, clock, min_age_timedelta, listers, cur,
                   pos, page_loaded, blobs_to_process, workers, summary, src, dst,
                   calls, faults, list_clock>>

\* leaving the with block waits for every submitted transfer; then the
\* summary is printed and "OK", 200 returned (lines 200-204)
PoolJoinedNoWait(ws) == TRUE
\* executor.shutdown(wait=True) at the end of the with block (line 168)
PoolJoined(ws) == \A t \in 1..Len(ws) : ws[t].pc = "done"

Shutdown ==
    /\ pc = "shutdown"
    /\ PoolJoined(workers)
    /\ summary' = results
    /\ status' = OK200
    /\ pc' = "done"
    /\ UNCHANGED <<config, bucket, clock, min_age_timedelta, listers, cur, pos,
                   page_loaded, blobs_to_process, workers, consumed, results, src,
                   dst, calls, breach_seen, faults, list_clock>>

\* time passes
Tick ==
    /\ pc /= "done"
    /\ clock + TickSeconds <= FUNCTION_TIMEOUT_SECONDS
    /\ clock' = clock + TickSeconds
    /\ UNCHANGED <<config, bucket, pc, status, min_age_timedelta, listers, cur, pos,
                   page_loaded, blobs_to_process, workers, consumed, results,
                   summary, src, dst, calls, breach_seen, faults, list_clock>>

Next ==
    \/ ParsePayload
    \/ ValidateConfig
    \/ StartListing
    \/ \E i \in 1..Len(listers) : StartLister(i)
    \/ \E i \in 1..Len(listers) : ListAttempt(i)
    \/ \E i \in 1..Len(listers) : TakeListing(i)
    \/ FetchPage
    \/ FilterStep
    \/ Dispatch
    \/ \E t \in 1..Len(workers) : StartTransfer(t)
    \/ \E t \in 1..Len(workers) : Attempt(t)
    \/ \E n \in src : Vanish(n)
    \/ \E t \in 1..Len(workers) : Consume(t)
    \/ Shutdown
    \/ Tick

-----------------------------------------------------------------------------
(* Requests and buckets the runs start from.                               *)

Blob(name, updated, class) == [name |-> name, updated |-> updated, storage_class |-> class]

PAbsent == [kind |-> "absent", items |-> <<>>]
PList(items) == [kind |-> "list", items |-> items]
\* a value that is no list, or a list holding something that is no string
PNotStrings == [kind |-> "other", items |-> <<>>]

ANull == [kind |-> "null", n |-> 0, s |-> <<>>]
AInt(n) == [kind |-> "int", n |-> n, s |-> <<>>]
AStr(s) == [kind |-> "str", n |-> 0, s |-> s]

Request(present, source, destination, prefixes, age, delete) ==
    [present |-> present, source_bucket |-> source, destination_bucket |-> destination,
     filename_prefixes |-> prefixes, min_age_days_for_transfer |-> age,
     delete_source_after_transfer |-> delete]

Old == <<NowDay - 400>>

\* three eligible objects and two of the wrong tier
ScenarioBucket ==
    <<Blob(<<"x", "1">>, Old, "COLDLINE"), Blob(<<"s", "1">>, Old, "STANDARD"),
      Blob(<<"x", "2">>, Old, "COLDLINE"), Blob(<<"x", "3">>, Old, "COLDLINE"),
      Blob(<<"s", "2">>, Old, "STANDARD")>>

\* one eligible object and two of the wrong tier
SmallBucket ==
    <<Blob(<<"d", "/", "x", "1">>, Old, "COLDLINE"), Blob(<<"y", "1">>, Old, "STANDARD"),
      Blob(<<"s", "1">>, Old, "STANDARD")>>

\* one eligible object and one of the wrong tier, on one page
RetryBucket ==
    <<Blob(<<"d", "/", "x", "1">>, Old, "COLDLINE"), Blob(<<"y", "1">>, Old, "STANDARD")>>

PrefixLists ==
    {PAbsent, PList(MatchAll), PList(<<>>), PList(<<<<"x">>>>),
     PList(<<<<"x">>, <<"y">>>>), PList(<<<<>>, <<"y">>>>), PNotStrings}

Start(c, b, f) ==
    /\ config = c
    /\ bucket = b
    /\ faults = f
    /\ pc = "parse"
    /\ status = NoStatus
    /\ clock = 0
    /\ min_age_timedelta = <<>>
    /\ listers = <<>>
    /\ cur = 0
    /\ pos = 1
    /\ page_loaded = FALSE
    /\ blobs_to_process = <<>>
    /\ workers = <<>>
    /\ consumed = {}
    /\ results = <<>>
    /\ summary = <<>>
    /\ src = {b[i].name : i \in 1..Len(b)}
    /\ dst = {}
    /\ calls = {}
    /\ breach_seen = FALSE
    /\ list_clock = 0 - 1

\* a run over the scenario bucket with the match-all prefix, or over the
\* small bucket with any prefix list
Init ==
    \/ \E present \in BOOLEAN, destination \in {"", "a", "b"}, delete \in BOOLEAN :
          Start(Request(present, "a", destination, PAbsent, ANull, delete),
                ScenarioBucket, RunFaults)
    \/ \E source \in {"", "a"}, destination \in {"a", "b"}, prefixes \in PrefixLists,
          delete \in BOOLEAN :
          Start(Request(TRUE, source, destination, prefixes, AInt(MIN_AGE_DAYS_THRESHOLD + 1), delete),
                SmallBucket, RunFaults)

Spec == Init /\ [][Next]_vars

-----------------------------------------------------------------------------
(* Runs that exercise the retry loops: one eligible object, and as many    *)
(* failures as one call can meet.                                          *)

InitRetry ==
    \E prefixes \in {PAbsent, PList(<<<<"x">>>>), PList(<<<<"x">>, <<"y">>>>)},
       delete \in BOOLEAN :
       Start(Request(TRUE, "a", "b", prefixes, ANull, delete), RetryBucket, RetryFaults)

SpecRetry == InitRetry /\ [][Next]_vars

-----------------------------------------------------------------------------
(* Listings over every kind of object metadata, prefix list and age, up to *)
(* the work list.                                                          *)

FilterNames ==
    {<<"x", "1">>, <<"d", "/", "x", "1">>, <<"x", "/", "y", "1">>, <<"y", "1">>,
     <<"x", "/">>, <<"x">>}
FilterUpdated ==
    {<<>>, <<NowDay>>, <<NowDay - 50>>, <<NowDay - 99>>, <<NowDay - 100>>, <<NowDay - 400>>}
FilterClasses == {"COLDLINE", "STANDARD", "coldline"}
FilterAges ==
    {ANull, AInt(0), AInt(0 - 5), AInt(45), AInt(90), AInt(91), AInt(100),
     AStr(<<>>), AStr(<<"4", "5">>), AStr(<<"-", "5">>), AStr(<<"9", "0">>),
     AStr(<<"1", "0", "0">>), AStr(<<"9", "x">>)}

\* an object that passes every rule under the prefix x
LastBlob == Blob(<<"x", "9">>, Old, "COLDLINE")

InitFilter ==
    \E name \in FilterNames, updated \in FilterUpdated, class \in FilterClasses,
       prefixes \in PrefixLists, age \in FilterAges :
       Start(Request(TRUE, "a", "b", prefixes, age, FALSE),
             <<Blob(name, updated, class), LastBlob>>, 0)

NextListing ==
    \/ ParsePayload
    \/ ValidateConfig
    \/ StartListing
    \/ \E i \in 1..Len(listers) : StartLister(i)
    \/ \E i \in 1..Len(listers) : ListAttempt(i)
    \/ \E i \in 1..Len(listers) : TakeListing(i)
    \/ FetchPage
    \/ FilterStep
    \/ Dispatch
    \/ Tick

SpecFilter == InitFilter /\ [][NextListing]_vars

-----------------------------------------------------------------------------
(* Properties of the transfer worker.                                      *)

IsPrefixOf(a, b) == Len(a) <= Len(b) /\ SubSeq(b, 1, Len(a)) = a
Has(seq, x) == \E i \in 1..Len(seq) : seq[i] = x
Transfers == 1..Len(workers)

\* the get_blob of the destination has returned for worker t, without the object
VerifyMissed(t) ==
    /\ workers[t].last.op = "verify"
    /\ workers[t].last.next = "return"
    /\ ~workers[t].last.value

\* C1: under every interleaving of the transfers, a worker issues its remote
\* calls in the order check, copy, verify, delete; the delete of the source
\* is issued only if delete_source was requested, the copy was made and the
\* get_blob of the destination returned the object, which is then present in
\* the destination; deleted implies verified.
C1_DeleteOnlyAfterVerify ==
    \A t \in Transfers :
       LET w == workers[t] IN
       /\ IsPrefixOf(w.steps, <<"check", "copy", "verify", "delete">>)
       /\ Has(w.steps, "delete") =>
             /\ config.delete_source_after_transfer
             /\ w.copied /\ w.verified
             /\ w.name \in dst
       /\ w.deleted => w.verified /\ Has(w.steps, "delete")

\* a source object has been deleted by its transfer while another transfer
\* is between two of its remote calls
C1_Witness ==
    \E t, u \in Transfers :
       /\ t /= u
       /\ workers[t].deleted /\ workers[t].ret.deleted = 1
       /\ workers[u].pc \in {"copy", "verify", "delete"}

\* C2: a transfer whose copy was answered with success and whose get_blob of
\* the destination then returned nothing is over with the result
\* (False, 0, 0, 0) and has issued no delete, whatever delete_source is.
C2_VerifyMissFailsWithoutDelete ==
    \A t \in Transfers :
       VerifyMissed(t) =>
          /\ workers[t].copied
          /\ workers[t].pc = "done"
          /\ workers[t].ret = ReturnFailure
          /\ ~Has(workers[t].steps, "delete")
          /\ ~workers[t].deleted

C2_Witness ==
    \E t \in Transfers :
       /\ VerifyMissed(t)
       /\ config.delete_source_after_transfer
       /\ workers[t].steps = <<"check", "copy", "verify">>

\* the existence check of worker t returned nothing: the listed object is gone
Skipped(t) ==
    /\ workers[t].last.op = "check"
    /\ workers[t].last.next = "return"
    /\ ~workers[t].last.value

\* C3: an object that is gone when its transfer starts gets no copy, verify
\* or delete call, and the failed counter is not incremented for it: failed
\* counts at most the consumed transfers that were not skipped.
C3_SkipIsNotAFailure ==
    /\ \A t \in Transfers : Skipped(t) => workers[t].steps = <<"check">>
    /\ results /= <<>> =>
          results[1].failed <= Cardinality({t \in consumed : ~Skipped(t)})

\* C4: when source_bucket equals destination_bucket the request is answered
\* 400 before any remote call, listing task or transfer, and no summary is
\* produced.
C4_SameBucketRejected ==
    (config.present /\ config.source_bucket = config.destination_bucket) =>
       /\ pc \in {"parse", "validate", "done"}
       /\ pc = "done" => status = Invalid400
       /\ calls = {}
       /\ listers = <<>> /\ workers = <<>> /\ blobs_to_process = <<>>
       /\ results = <<>> /\ summary = <<>>

C4_Witness ==
    /\ config.present
    /\ config.source_bucket = "a" /\ config.destination_bucket = "a"
    /\ pc = "done" /\ status = Invalid400

\* the run of scenario 2 is over: match-all prefix, delete requested, no
\* deadline breach, three transfers, one of which missed its verification
\* while the other two went through every step
Scenario2Over ==
    /\ pc = "done" /\ status = OK200
    /\ FILENAME_PREFIXES(config) = MatchAll
    /\ config.delete_source_after_transfer
    /\ ~breach_seen
    /\ Len(workers) = 3
    /\ Cardinality({t \in Transfers : VerifyMissed(t)}) = 1
    /\ Cardinality({t \in Transfers : workers[t].deleted}) = 2

\* C5 as stated: scenario 2 ends with copied=3, verified=2, deleted=2, failed=1.
C5_PartialCredit ==
    Scenario2Over =>
       summary = <<[copied |-> 3, verified |-> 2, deleted |-> 2, failed |-> 1]>>

\* C5 as amended: scenario 2 ends with copied=2, verified=2, deleted=2,
\* failed=1: the object that was copied but not verified adds 1 to failed and
\* nothing to copied.
C5_NoPartialCredit ==
    Scenario2Over =>
       summary = <<[copied |-> 2, verified |-> 2, deleted |-> 2, failed |-> 1]>>

C5_Witness == Scenario2Over /\ summary /= <<>>

-----------------------------------------------------------------------------
(* Properties of the retry wrappers.                                       *)

\* the waits of the claim: 1.5 s, 3 s and 6 s, in tenths of a second
Backoffs == <<15, 30, 60>>

AllTransient(outs) == \A i \in 1..Len(outs) : outs[i] = "transient"
TransientThenOk(outs) ==
    /\ Len(outs) >= 1 /\ outs[Len(outs)] = "ok"
    /\ AllTransient(SubSeq(outs, 1, Len(outs) - 1))

\* a call that is over: it returned at attempt k after the first k-1 waits,
\* or raised at attempt 4 after 3 waits
FinishedLaw(outs, waits, next) ==
    /\ TransientThenOk(outs) =>
          /\ Len(outs) <= 4
          /\ next = "return"
          /\ waits = SubSeq(Backoffs, 1, Len(outs) - 1)
    /\ AllTransient(outs) =>
          /\ Len(outs) = 4
          /\ next = "raise"
          /\ waits = Backoffs

\* a call that is still in its loop has made at most 3 attempts
RunningLaw(outs, waits) ==
    AllTransient(outs) => Len(outs) <= 3 /\ waits = SubSeq(Backoffs, 1, Len(outs))

ListerNext(l) ==
    CASE l.st = "returned" -> "return"
      [] l.st = "raised" -> "raise"
      [] OTHER -> IF l.call.outs[Len(l.call.outs)] = "ok" THEN "return" ELSE "raise"

\* C6: a remote call under a retry wrapper that meets only transient errors
\* is attempted at most 4 times; if attempt k is the first to succeed the
\* call returns after exactly the waits 1.5, 3, 6 cut to k-1; if all 4
\* attempts fail the error is raised after 4 attempts and 3 waits.
C6_TransientRetryLaw ==
    /\ \A t \in Transfers :
          /\ workers[t].last.op /= "none" =>
                FinishedLaw(workers[t].last.outs, workers[t].last.waits, workers[t].last.next)
          /\ workers[t].pc \in {"check", "copy", "verify", "delete"} =>
                RunningLaw(workers[t].call.outs, workers[t].call.waits)
    /\ \A i \in 1..Len(listers) :
          IF listers[i].st \in {"pending", "running"}
          THEN RunningLaw(listers[i].call.outs, listers[i].call.waits)
          ELSE FinishedLaw(listers[i].call.outs, listers[i].call.waits, ListerNext(listers[i]))

\* a call of a worker succeeded at its fourth attempt
C6_Witness ==
    \E t \in Transfers :
       /\ workers[t].last.outs = <<"transient", "transient", "transient", "ok">>
       /\ workers[t].last.next = "return"
       /\ workers[t].last.waits = <<15, 30, 60>>

\* a call whose first attempt met a non-transient error made that one
\* attempt, slept never, and raised
FailFast(outs, waits, over, next) ==
    (Len(outs) >= 1 /\ outs[1] = "fatal") =>
       Len(outs) = 1 /\ waits = <<>> /\ over /\ next = "raise"

\* C7: for every remote call under a retry wrapper (list, copy, existence
\* check, delete) a non-transient error means exactly 1 attempt: it is raised
\* at once, without a wait.
C7_NonTransientFailsFast ==
    /\ \A t \in Transfers :
          /\ workers[t].last.op /= "none" =>
                FailFast(workers[t].last.outs, workers[t].last.waits, TRUE, workers[t].last.next)
          /\ workers[t].pc \in {"check", "copy", "verify", "delete"} =>
                FailFast(workers[t].call.outs, workers[t].call.waits, FALSE, "none")
    /\ \A i \in 1..Len(listers) :
          IF listers[i].st \in {"pending", "running"}
          THEN FailFast(listers[i].call.outs, listers[i].call.waits, FALSE, "none")
          ELSE FailFast(listers[i].call.outs, listers[i].call.waits, TRUE, ListerNext(listers[i]))

-----------------------------------------------------------------------------
(* Properties of the listing.                                              *)

\* the part of the name after its last '/'
BaseFilename(name) ==
    CHOOSE b \in {SubSeq(name, k, Len(name)) : k \in 1..(Len(name) + 1)} :
       /\ ~Has(b, "/")
       /\ Len(b) = Len(name) \/ name[Len(name) - Len(b)] = "/"

Rule1(blob) == blob.name = <<>> \/ blob.name[Len(blob.name)] /= "/"
Rule2(blob, prefixes) ==
    \/ prefixes = << <<>> >>
    \/ \E i \in 1..Len(prefixes) : \E k \in 0..Len(BaseFilename(blob.name)) :
          SubSeq(BaseFilename(blob.name), 1, k) = prefixes[i]
Rule3(blob, minAge) ==
    minAge = <<>> \/ (blob.updated /= <<>> /\ NowDay - blob.updated[1] >= minAge[1])
Rule4(blob) == blob.storage_class = "COLDLINE"

\* the listing is over, the deadline was never seen breached and the request
\* was not rejected
ListedAll ==
    /\ pc \in {"collect", "done"}
    /\ status.code /= 400
    /\ ~breach_seen

\* C8: with the deadline not breached, the lister yields an object iff its
\* name does not end with '/', the prefixes are the sentinel [""] or its
\* base filename starts with one of them, no minimum age is set or its
\* last-modified time is known and at least that old, and its storage class
\* is the target tier; before the end, every yielded object passes all four.
C8_FilterIffFourRules ==
    LET passes(b) == /\ Rule1(b) /\ Rule2(b, FILENAME_PREFIXES(config))
                     /\ Rule3(b, min_age_timedelta) /\ Rule4(b)
    IN  \A i \in 1..Len(bucket) :
           /\ Has(blobs_to_process, bucket[i].name) => passes(bucket[i])
           /\ ListedAll => (passes(bucket[i]) => Has(blobs_to_process, bucket[i].name))

\* a listing with an age threshold and a prefix list has kept the last
\* object and dropped the first
C8_Witness ==
    /\ ListedAll
    /\ min_age_timedelta /= <<>>
    /\ FILENAME_PREFIXES(config) = <<<<"x">>>>
    /\ bucket[1].name = <<"x", "/", "y", "1">>
    /\ Has(blobs_to_process, bucket[2].name)
    /\ ~Has(blobs_to_process, bucket[1].name)
    /\ Rule1(bucket[1]) /\ Rule3(bucket[1], min_age_timedelta) /\ Rule4(bucket[1])

\* the configured age is an integer, or text that int() accepts
AgeParses(a) == a.kind = "int" \/ (a.kind = "str" /\ ParseInt(a.s).ok)
AgeParsed(a) == IF a.kind = "int" THEN a.n ELSE ParseInt(a.s).n

\* C9: a min_age_days_for_transfer that parses to an integer <= 90 is
\* accepted (the request is not rejected for it) and leaves no age filter:
\* min_age_timedelta stays None and every object that passes the rules on
\* name, prefix and tier is yielded, whatever its last-modified time.  A
\* value > 90 becomes the threshold of the age filter.
C9_AgeAtMostFloorIsNoFilter ==
    LET a == config.min_age_days_for_transfer
        validated == pc \notin {"parse", "validate"} /\ status.code /= 400
    IN  /\ (AgeParses(a) /\ AgeParsed(a) <= 90) =>
              /\ (pc = "done" /\ config.filename_prefixes.kind /= "other") =>
                    status /= Invalid400
              /\ min_age_timedelta = <<>>
              /\ ListedAll =>
                    \A i \in 1..Len(bucket) :
                       (/\ Rule1(bucket[i]) /\ Rule2(bucket[i], FILENAME_PREFIXES(config))
                        /\ Rule4(bucket[i])) => Has(blobs_to_process, bucket[i].name)
        /\ (AgeParses(a) /\ AgeParsed(a) > 90 /\ validated) =>
              min_age_timedelta = <<AgeParsed(a)>>

\* with the age "45" an object modified today and one of unknown age are kept
C9_Witness ==
    /\ ListedAll
    /\ config.min_age_days_for_transfer = AStr(<<"4", "5">>)
    /\ bucket[1].updated = <<>>
    /\ Has(blobs_to_process, bucket[1].name)

\* generate_eligible_blobs started with at most the shutdown buffer left
BreachedBeforeListing ==
    /\ list_clock >= 0
    /\ 3600 - list_clock <= 30
    /\ Len(FILENAME_PREFIXES(config)) >= 1

NothingProcessed ==
    /\ blobs_to_process = <<>>
    /\ workers = <<>>
    /\ calls \subseteq {"list"}
    /\ results = <<>> /\ summary = <<>>

\* C10 as stated: when the shutdown buffer is breached before listing starts
\* the lister yields nothing, no transfer is dispatched, no copy, verify or
\* delete call is made, no counter is raised and the run returns "OK", 200.
C10_BreachBeforeListingReturnsOK ==
    BreachedBeforeListing =>
       /\ NothingProcessed
       /\ pc = "done" => status = OK200

\* C10 as amended: the same, except that with the match-all prefix an error
\* of the one listing leaves direct_copy_or_move as an exception; with a
\* list of prefixes the run returns "OK", 200.
C10_BreachBeforeListingProcessesNothing ==
    BreachedBeforeListing =>
       /\ NothingProcessed
       /\ pc = "done" =>
             \/ status = OK200
             \/ status = Raised500 /\ FILENAME_PREFIXES(config) = MatchAll

\* a listing that started past the deadline returned objects, the filter saw
\* the breach at the first of them, and the run returned
C10_Witness ==
    /\ BreachedBeforeListing
    /\ breach_seen
    /\ Len(bucket) > 0
    /\ pc = "done" /\ status = OK200

-----------------------------------------------------------------------------
(* Properties of the run as a whole.                                       *)

\* the request got past parsing and validation
Validated == config.present /\ pc \notin {"parse", "validate"} /\ status.code /= 400

\* the listing call raised on its last attempt, or a page of it could not be
\* fetched
ListerFailed(l) ==
    \/ l.st = "broken"
    \/ /\ l.st \in {"raised", "consumed"}
       /\ l.call.outs /= <<>>
       /\ l.call.outs[Len(l.call.outs)] /= "ok"

\* the one listing of the match-all path failed: nothing catches that
TotalListingFailure ==
    /\ FILENAME_PREFIXES(config) = MatchAll
    /\ \E i \in 1..Len(listers) : ListerFailed(listers[i])

\* C11: a run that passed validation and met no total listing failure
\* returns "OK", 200 when it is over, truncated by the deadline or not,
\* whatever the number of failed transfers.
C11_CompletedRunReturnsOK ==
    (pc = "done" /\ Validated /\ ~TotalListingFailure) => status = OK200


\* at most the shutdown buffer is left
BufferBreached == 3600 - clock <= 30

\* C12: the result loop checks the deadline before it accepts a result: once
\* the shutdown buffer is breached no outcome is aggregated any more, not
\* even the one as_completed has just handed over, so the counters never
\* change again; the transfers still outstanding are not cancelled: each of
\* them can still be started or make its next remote call.
C12_NoAggregationAfterBreach ==
    /\ [][(BufferBreached /\ results /= <<>>) =>
            /\ results' = results
            /\ consumed' = consumed]_vars
    /\ [](pc = "shutdown" =>
            \A t \in Transfers :
               workers[t].pc /= "done" => ENABLED (StartTransfer(t) \/ Attempt(t)))

\* one result was accepted, then the loop was left at the deadline with a
\* result waiting and a transfer still at work
C12_Witness ==
    /\ pc = "shutdown" /\ breach_seen
    /\ consumed /= {}
    /\ \E t \in Transfers : t \notin consumed /\ workers[t].pc = "done"
    /\ \E t \in Transfers : workers[t].pc \in {"queued", "copy"}


MultiPrefix == FILENAME_PREFIXES(config) /= MatchAll

\* C13: with a list of prefixes the deadline is consulted before each listing
\* task is started: once the shutdown buffer is breached, a listing task that
\* has not sent its list request yet never sends it.
C13_NoListingStartedAfterBreach ==
    [][(BufferBreached /\ MultiPrefix) =>
         \A i \in 1..Len(listers) :
            listers[i].call.outs = <<>> => listers'[i].call.outs = <<>>]_vars


\* the listing of prefix i did not fail: it was opened and iterated to its end
ListedPrefix(i) == listers[i].st = "consumed" /\ ~ListerFailed(listers[i])

\* blob is a result of the listing of prefix i
ResultOfPrefix(blob, i) ==
    filter_blobs(blob, <<FILENAME_PREFIXES(config)[i]>>, min_age_timedelta, NowDay)

\* C14: with a list of prefixes a failed listing is isolated: once listing is
\* over (and the deadline did not cut it short) the merged sequence holds an
\* object exactly when it is a result of a prefix whose listing did not fail;
\* the results of a failed prefix are left out, and the run is not aborted.
C14_FailedPrefixOmitted ==
    (MultiPrefix /\ pc \in {"collect", "shutdown", "done"} /\ listers /= <<>> /\ ~breach_seen) =>
       /\ status /= Raised500
       /\ \A k \in 1..Len(bucket) :
             Has(blobs_to_process, bucket[k].name) <=>
                \E i \in 1..Len(listers) : ListedPrefix(i) /\ ResultOfPrefix(bucket[k], i)


\* the remote call the worker made last ended in an exception
StepRaised(w) == w.pc = "done" /\ w.last.next = "raise"

\* C15: whichever step of a transfer raises (existence re-check, copy,
\* verify or delete), process_single_file_copy_or_move returns
\* (False, 0, 0, 0) instead of raising, and the step that raised is the last
\* one the worker ran.
C15_AnyStepExceptionReturnsFailure ==
    \A t \in Transfers :
       StepRaised(workers[t]) =>
          /\ workers[t].ret = ReturnFailure
          /\ workers[t].steps[Len(workers[t].steps)] = workers[t].last.op


\* what the outcome of one transfer is worth in one counter
Credit(ret, counter) ==
    IF counter = "failed"
    THEN IF ret.st = "returned" /\ ret.success THEN 0 ELSE 1
    ELSE IF ret.st = "returned" /\ ret.success THEN ret[counter] ELSE 0

RECURSIVE SumCredit(_, _)
SumCredit(counter, S) ==
    IF S = {} THEN 0
    ELSE LET t == CHOOSE x \in S : TRUE
         IN  Credit(workers[t].ret, counter) + SumCredit(counter, S \ {t})

CountersAreSumsOver(res, S) ==
    \A counter \in {"copied", "verified", "deleted", "failed"} :
       res[counter] = SumCredit(counter, S)

NormalCompletion == pc = "done" /\ workers /= <<>> /\ ~breach_seen

\* C16: in whatever order the workers complete and are handed over, every
\* accepted outcome is in the counters exactly once: a success with its
\* copied, verified and deleted flags, a returned failure or a worker
\* exception as 1 in failed and nothing else; at normal completion (no
\* deadline breach) the counters are the sums over all dispatched transfers.
C16_CountersAreSumsOfOutcomes ==
    /\ results /= <<>> => CountersAreSumsOver(results[1], consumed)
    /\ NormalCompletion =>
          /\ consumed = Transfers
          /\ CountersAreSumsOver(summary[1], Transfers)

\* a run completed with successes and a failure, the first dispatched
\* transfer being the failed one
C16_Witness ==
    /\ NormalCompletion
    /\ summary[1].copied >= 2 /\ summary[1].failed >= 1
    /\ ~workers[1].ret.success


\* the run is over, its configuration was accepted and its listing, which
\* did not fail as a whole, yielded nothing
NothingEligible ==
    /\ pc = "done" /\ Validated /\ ~TotalListingFailure
    /\ blobs_to_process = <<>>

\* C17: for every accepted configuration (the match-all sentinel or a list
\* of strings of any length) whose listing yields no eligible object the run
\* returns "OK", 200 with nothing counted: no worker pool is started and no
\* copy, get-metadata or delete call is issued.
C17_NothingEligibleReturnsOK ==
    NothingEligible =>
       /\ status = OK200
       /\ workers = <<>> /\ results = <<>> /\ summary = <<>>
       /\ calls \subseteq {"list"}


\* C18: for every prefix list the work list holds each source object at most
\* once, so at most one transfer is dispatched per object.
C18_WorkListHasNoDuplicate ==
    /\ \A i, j \in 1..Len(blobs_to_process) :
          blobs_to_process[i] = blobs_to_process[j] => i = j
    /\ \A t, u \in Transfers : workers[t].name = workers[u].name => t = u


CountersConsistent(res) ==
    /\ res.copied = res.verified
    /\ res.deleted = (IF config.delete_source_after_transfer THEN res.verified ELSE 0)
    /\ res.copied + res.failed <= Len(workers)

\* C19: in every state of a run copied = verified; deleted = verified when
\* delete_source_after_transfer is set and deleted = 0 when it is not;
\* copied + failed is at most the number of transfers dispatched, and equal
\* to it at normal completion (no deadline breach).
C19_CounterInvariants ==
    /\ results /= <<>> => CountersConsistent(results[1])
    /\ summary /= <<>> => CountersConsistent(summary[1])
    /\ NormalCompletion => summary[1].copied + summary[1].failed = Len(workers)

\* a moving run completed with objects moved and one failed
C19_Witness ==
    /\ NormalCompletion
    /\ config.delete_source_after_transfer
    /\ summary[1].deleted >= 1 /\ summary[1].failed >= 1
    /\ \E t \in Transfers : workers[t].last.op = "delete" /\ workers[t].last.next = "raise"


-----------------------------------------------------------------------------
(* Runs in which every thread that can take a step eventually takes one    *)
(* and every remote call eventually returns or raises.  Nothing is assumed *)
(* of the clock or of other writers of the bucket.                         *)

Progress ==
    \/ ParsePayload
    \/ ValidateConfig
    \/ StartListing
    \/ \E i \in 1..Len(listers) : StartLister(i)
    \/ \E i \in 1..Len(listers) : ListAttempt(i)
    \/ \E i \in 1..Len(listers) : TakeListing(i)
    \/ FetchPage
    \/ FilterStep
    \/ Dispatch
    \/ \E t \in 1..Len(workers) : StartTransfer(t)
    \/ \E t \in 1..Len(workers) : Attempt(t)
    \/ \E t \in 1..Len(workers) : Consume(t)
    \/ Shutdown

SpecLive == Init /\ [][Next]_vars /\ WF_vars(Progress)

Submitted == workers /= <<>>
EveryTransferTerminated == \A t \in Transfers : workers[t].pc = "done"

\* C20: direct_copy_or_move does not return before every transfer submitted
\* to the pool has terminated, also when a deadline breach ended the result
\* loop; every submitted transfer is eventually started and runs to its end,
\* and, remote calls returning, the run eventually returns "OK", 200.
C20_RunWaitsForEveryTransfer ==
    /\ []((pc = "done" /\ Submitted) => EveryTransferTerminated)
    /\ Submitted ~> EveryTransferTerminated
    /\ Submitted ~> (pc = "done" /\ status = OK200)

\* the run returned after a breach that left every result unconsumed; its
\* transfers all ran to their end, one of them up to the delete
C20_Witness ==
    /\ pc = "done" /\ breach_seen
    /\ Len(workers) >= 2 /\ consumed = {}
    /\ EveryTransferTerminated
    /\ \E t \in Transfers : workers[t].deleted

====
